---------------------------- MODULE Spec2Model ----------------------------
(***************************************************************************)
(* Band-energy analysis and event detection of the visualizer: the hook    *)
(* useBands (src/src/components/visuals/audio/useBands.ts), the Scene that *)
(* drives it once per rendered frame (src/src/components/UI.tsx), the two  *)
(* layers that consume its flash flag, and the microphone controls that    *)
(* install and remove the analyser (src/src/components/ProcessMic.tsx).    *)
(*                                                                         *)
(* Numbers.  The code computes in IEEE doubles; the model computes the     *)
(* same quantities exactly on integers:                                    *)
(*   - an energy or an EMA x is held as x * Scale, Scale = AlphaDen^       *)
(*     MaxRunFrames.  The smoothing coefficients are multiples of 1/AlphaDen, *)
(*     so every EMA of at most MaxRunFrames updates is an exact multiple of   *)
(*     1/Scale (and, AlphaDen being a power of two, exact in a double);    *)
(*   - the ratio (emaShort + 1e-6) / max(emaLong, 1e-6) is held as the     *)
(*     pair [lo, hi] = [floor, ceiling] of ratio * RatioScale.  For a      *)
(*     threshold T that is a multiple of 1/RatioScale, ratio >= T iff      *)
(*     lo >= T * RatioScale and ratio <= T iff hi <= T * RatioScale;       *)
(*   - riseDb = 20 * log10(ratio) is held as the pair [lo, hi] of the      *)
(*     nearest values of DbGrid (tenths of a dB) below and above it, found *)
(*     from the table Pow10Db of 10^(dB/20); riseDb >= d iff lo >= d and   *)
(*     riseDb <= d iff hi <= d, for every d of DbGrid;                     *)
(*   - performance.now() is a whole number of milliseconds.                *)
(***************************************************************************)
EXTENDS Integers, Sequences, FiniteSets, TLC

----------------------------------------------------------------------------
(* Bounds of the model. *)

\* Frames (runs of Scene's useFrame callback) in one behaviour of Spec.
MaxFrames == 3
\* Frames in one behaviour of SpecRun, where the analyser stays installed.
MaxRunFrames == 5
\* Renders of Scene after the first (each re-runs its effect).
MaxRenders == 1
\* Microphone starts and stops after the first start.
MaxMicEvents == 1

----------------------------------------------------------------------------
(* Units of the fixed-point representation. *)

\* emaShortAlpha and emaLongAlpha are given in units of 1/AlphaDen.
AlphaDen == 4
\* An energy or EMA x is held as x * Scale.
Scale == AlphaDen ^ MaxRunFrames
\* The 1e-6 of the baseline and of the ratio is 1 / EpsDen.
EpsDen == 1000000
\* ratio, ratioOn and ratioOff are held in units of 1/RatioScale.
RatioScale == 1000
\* Stored ratio when the baseline is the 1e-6 floor under a positive
\* emaShort: the true ratio is then at least EpsDen / Scale + 1, above every
\* configured threshold.
RatioCap == 100 * RatioScale

Max(a, b) == IF a >= b THEN a ELSE b
Min(a, b) == IF a <= b THEN a ELSE b
SetMax(S) == CHOOSE x \in S : \A y \in S : y <= x
SetMin(S) == CHOOSE x \in S : \A y \in S : x <= y
\* Math.floor and the ceiling of n / d, for d > 0.
Floor(n, d) == n \div d
Ceil(n, d) == (n + d - 1) \div d

\* dB values (tenths of a dB) the configurations use as dbOn or dbOff,
\* between two values no riseDb reaches.
DbLow == -10000
DbHigh == 10000
DbGrid == {-10, 0, 8, 10, 20, 22, 30}
\* 10^(dB/20) * RatioScale as [lo, hi] = [floor, ceiling]:
\* 10^-0.05 = 0.89125, 10^0 = 1, 10^0.04 = 1.09648, 10^0.05 = 1.12202, 10^0.1 = 1.25893,
\* 10^0.11 = 1.28825, 10^0.15 = 1.41254.
Pow10Db(d) ==
  CASE d = -10 -> [lo |-> 891, hi |-> 892]
    [] d = 0 -> [lo |-> 1000, hi |-> 1000]
    [] d = 8 -> [lo |-> 1096, hi |-> 1097]
    [] d = 10 -> [lo |-> 1122, hi |-> 1123]
    [] d = 20 -> [lo |-> 1258, hi |-> 1259]
    [] d = 22 -> [lo |-> 1288, hi |-> 1289]
    [] d = 30 -> [lo |-> 1412, hi |-> 1413]

----------------------------------------------------------------------------
(* Configurations (VisualizerConfig, src/src/config/Visual.ts). *)

\* The band names of VISUAL_CONFIG.
BandNames == {"STROBE_FLASH", "DYNAMIC_VISUAL"}

\* VISUAL_CONFIG's bands and thresholds, with smoothing coefficients 1/2 and
\* 1/4, a refractory period of 100 ms on STROBE_FLASH and none stated on
\* DYNAMIC_VISUAL, whose range is narrowed to 2000-2100 Hz.
ConfigStrobe ==
  [fftSize |-> 2048, minDecibels |-> -100, maxDecibels |-> -20,
   emaShortAlpha |-> 2, emaLongAlpha |-> 1,
   StrobeFlashBand |-> "STROBE_FLASH", spectrumSmoothing |-> 22,
   bands |-> <<
     [name |-> "STROBE_FLASH", lowHz |-> 50, highHz |-> 150, absFloor |-> 210,
      ratioOn |-> 1000, ratioOff |-> 1500, dbOn |-> 22, dbOff |-> 8,
      refractoryMs |-> 100],
     [name |-> "DYNAMIC_VISUAL", lowHz |-> 2000, highHz |-> 2100, absFloor |-> 8,
      ratioOn |-> 1120, ratioOff |-> 1040, dbOn |-> 20, dbOff |-> 8] >>]

\* The thresholds of the specification's hysteresis example (absFloor 100,
\* ratioOn 1.5, ratioOff 1.1, dbOn 3, dbOff 1) on DYNAMIC_VISUAL, which is
\* also the flash band; STROBE_FLASH has refractoryMs 0 and reversed Hz
\* bounds; fftSize 0 is out of range.
ConfigExample ==
  [fftSize |-> 0, minDecibels |-> -90, maxDecibels |-> -10,
   emaShortAlpha |-> 2, emaLongAlpha |-> 1,
   StrobeFlashBand |-> "DYNAMIC_VISUAL", spectrumSmoothing |-> 50,
   bands |-> <<
     [name |-> "DYNAMIC_VISUAL", lowHz |-> 2000, highHz |-> 2100, absFloor |-> 100,
      ratioOn |-> 1500, ratioOff |-> 1100, dbOn |-> 30, dbOff |-> 10,
      refractoryMs |-> 100],
     [name |-> "STROBE_FLASH", lowHz |-> 150, highHz |-> 50, absFloor |-> 210,
      ratioOn |-> 1000, ratioOff |-> 1500, dbOn |-> 22, dbOff |-> 8,
      refractoryMs |-> 0] >>]

\* A configuration whose StrobeFlashBand names no band, with fftSize 32.
ConfigNoFlash ==
  [fftSize |-> 32, minDecibels |-> -100, maxDecibels |-> -20,
   emaShortAlpha |-> 3, emaLongAlpha |-> 1,
   StrobeFlashBand |-> "KICK", spectrumSmoothing |-> 22,
   bands |-> <<
     [name |-> "STROBE_FLASH", lowHz |-> 50, highHz |-> 150, absFloor |-> 210,
      ratioOn |-> 1000, ratioOff |-> 1500, dbOn |-> 22, dbOff |-> 8] >>]

Configs == {ConfigStrobe, ConfigExample, ConfigNoFlash}

\* VISUAL_CONFIG (Visual.ts:56-86): its bands with their thresholds and
\* refractory periods, dB in tenths; the smoothing coefficients 0.45 and 0.03
\* are held as the nearest quarters, 1/2 and 1/4, and the range of
\* DYNAMIC_VISUAL, 2000-20000 Hz, is narrowed to 2000-2100 Hz (it is used
\* with arrays that hold one value at every index).
ConfigShipped ==
  [fftSize |-> 2048, minDecibels |-> -100, maxDecibels |-> -20,
   emaShortAlpha |-> 2, emaLongAlpha |-> 1,
   StrobeFlashBand |-> "STROBE_FLASH", spectrumSmoothing |-> 22,
   bands |-> <<
     [name |-> "STROBE_FLASH", lowHz |-> 50, highHz |-> 150, absFloor |-> 210,
      ratioOn |-> 1000, ratioOff |-> 1500, dbOn |-> 22, dbOff |-> 8,
      refractoryMs |-> 110],
     [name |-> "DYNAMIC_VISUAL", lowHz |-> 2000, highHz |-> 2100, absFloor |-> 8,
      ratioOn |-> 1120, ratioOff |-> 1040, dbOn |-> 20, dbOff |-> 8,
      refractoryMs |-> 80] >>]

\* A preset whose thresholds are all negative: absFloor -1, ratioOn -0.5,
\* ratioOff -1, dbOn and dbOff -1 dB, refractoryMs -50.
ConfigNegative ==
  [fftSize |-> 2048, minDecibels |-> -100, maxDecibels |-> -20,
   emaShortAlpha |-> 2, emaLongAlpha |-> 1,
   StrobeFlashBand |-> "STROBE_FLASH", spectrumSmoothing |-> 22,
   bands |-> <<
     [name |-> "STROBE_FLASH", lowHz |-> 50, highHz |-> 150, absFloor |-> -1,
      ratioOn |-> -500, ratioOff |-> -1000, dbOn |-> -10, dbOff |-> -10,
      refractoryMs |-> -50] >>]

----------------------------------------------------------------------------
(* Records keyed by band name (the Record<string, ...> refs of useBands). *)

EmptyRecord == [n \in {} |-> 0]
\* f[k] ?? d
Get(f, k, d) == IF k \in DOMAIN f THEN f[k] ELSE d
\* f[k] = v
Put(f, k, v) == [n \in DOMAIN f \cup {k} |-> IF n = k THEN v ELSE f[n]]

----------------------------------------------------------------------------
(* Band Mapper. *)

\* The byte at index i of a Uint8Array read from the analyser.  The arrays
\* the model feeds are flat below index len / 16 (at value lo) and flat from
\* there on (at value hi), so a whole array is the record [len, lo, hi].
DataAt(data, i) == IF i < data.len \div 16 THEN data.lo ELSE data.hi

\* hzToBin clamped to fftSize / 2 instead of fftSize / 2 - 1.
hzToBin_ClampedAtLength(hz, sampleRate, fftSize) ==
  LET BIN_FREQUENCY == (hz \div sampleRate) * fftSize
                         + Floor((hz % sampleRate) * fftSize, sampleRate)
  IN  Max(0, Min(fftSize \div 2, BIN_FREQUENCY))

\* floor((hz / (sampleRate / 2)) * (fftSize / 2)) clamped to
\* [0, fftSize / 2 - 1]; fftSize is even, as every AnalyserNode.fftSize is.
\* The quotient is hz * fftSize / sampleRate; it is computed from the
\* quotient and the remainder of hz by sampleRate, which is the same number
\* and keeps the intermediate values small.
hzToBin(hz, sampleRate, fftSize) ==
  LET BIN_FREQUENCY == (hz \div sampleRate) * fftSize
                         + Floor((hz % sampleRate) * fftSize, sampleRate)
  IN  Max(0, Min(fftSize \div 2 - 1, BIN_FREQUENCY))

\* The loop of bandEnergy: data[i] + ... + data[high], every element added
\* once; the range is added by halves.
RECURSIVE SUM_FREQUENCY(_, _, _)
SUM_FREQUENCY(data, i, high) ==
  IF i > high THEN 0
  ELSE IF i = high THEN DataAt(data, i)
  ELSE SUM_FREQUENCY(data, i, (i + high) \div 2)
         + SUM_FREQUENCY(data, (i + high) \div 2 + 1, high)

\* The value that stands for NaN; every energy that is a number is >= 0.
NaN == -1

\* The divisor of bandEnergy: BAND_FREQUENCY_HIGH - BAND_FREQUENCY_LOW + 1.
BandSpan(data, a, b) ==
  Min(data.len - 1, Max(a, b)) - Max(0, Min(a, b)) + 1

\* The mean of data[low..high], times Scale.  When low is above high the loop
\* adds nothing and the quotient is 0 / 0 = NaN or 0 / negative = -0.
bandEnergy(data, a, b) ==
  LET BAND_FREQUENCY_LOW == Max(0, Min(a, b))
      BAND_FREQUENCY_HIGH == Min(data.len - 1, Max(a, b))
      SPAN == BAND_FREQUENCY_HIGH - BAND_FREQUENCY_LOW + 1
  IN  IF SPAN = 0 THEN NaN
      ELSE IF SPAN < 0 THEN 0
      ELSE (SUM_FREQUENCY(data, BAND_FREQUENCY_LOW, BAND_FREQUENCY_HIGH) * Scale)
             \div SPAN

----------------------------------------------------------------------------
(* Band State Tracker: the body of step's loop, for one band. *)

\* The update with the two weights exchanged.
EmaUpdate_Swapped(alpha, previous, energy) ==
  (alpha * previous + (AlphaDen - alpha) * energy) \div AlphaDen

\* (1 - alpha) * previous + alpha * energy, alpha in units of 1/AlphaDen.
EmaUpdate(alpha, previous, energy) ==
  ((AlphaDen - alpha) * previous + alpha * energy) \div AlphaDen

\* The ratio without the 1e-6 in its numerator: emaShort / CURRENT_BASELINE.
CURRENT_RATIO_NoEpsilon(emaShort, emaLong) ==
  IF emaLong >= Ceil(Scale, EpsDen)
  THEN [lo |-> Floor(emaShort * RatioScale, emaLong),
        hi |-> Ceil(emaShort * RatioScale, emaLong)]
  ELSE IF emaShort = 0
       THEN [lo |-> 0, hi |-> 0]
       ELSE [lo |-> RatioCap, hi |-> RatioCap]

\* CURRENT_BASELINE = max(emaLong, 1e-6) and
\* CURRENT_RATIO = (emaShort + 1e-6) / CURRENT_BASELINE, as [floor, ceiling]
\* of the ratio times RatioScale.  With emaShort = s / Scale and
\* emaLong = l / Scale >= 1e-6 the ratio times RatioScale is
\* (s * RatioScale + Scale * RatioScale / EpsDen) / l; with the baseline at
\* 1e-6 the ratio is s * EpsDen / Scale + 1.
CURRENT_RATIO(emaShort, emaLong) ==
  IF emaLong >= Ceil(Scale, EpsDen)
  THEN [lo |-> Floor(emaShort * RatioScale + Floor(Scale * RatioScale, EpsDen),
                     emaLong),
        hi |-> Ceil(emaShort * RatioScale + Ceil(Scale * RatioScale, EpsDen),
                    emaLong)]
  ELSE IF emaShort = 0
       THEN [lo |-> RatioScale, hi |-> RatioScale]
       ELSE [lo |-> RatioCap, hi |-> RatioCap]

\* RISE_DB = 20 * log10(CURRENT_RATIO), as the values of DbGrid around it.
RISE_DB(ratio) ==
  [lo |-> SetMax({d \in DbGrid : ratio.lo >= Pow10Db(d).hi} \cup {DbLow}),
   hi |-> SetMin({d \in DbGrid : ratio.hi <= Pow10Db(d).lo} \cup {DbHigh})]

\* The entry condition without its absolute floor.
EnterActive_NoFloor(band, energy, ratio, riseDb) ==
  ratio.lo >= band.ratioOn \/ riseDb.lo >= band.dbOn

\* The entry condition (useBands.ts:94-95).
EnterActive(band, energy, ratio, riseDb) ==
  /\ energy >= band.absFloor * Scale
  /\ (ratio.lo >= band.ratioOn \/ riseDb.lo >= band.dbOn)

\* The exit condition with either test enough.
LeaveActive_Either(band, ratio, riseDb) ==
  ratio.hi <= band.ratioOff \/ riseDb.hi <= band.dbOff

\* The exit condition (useBands.ts:101).
LeaveActive(band, ratio, riseDb) ==
  ratio.hi <= band.ratioOff /\ riseDb.hi <= band.dbOff

\* band.refractoryMs ?? 0
Refractory(band) ==
  IF "refractoryMs" \in DOMAIN band THEN band.refractoryMs ELSE 0

\* ok with a comparison that is not strict.
RefractoryOk_NotStrict(CURRENT_PERFORMANCE, lastHit, name, refractory) ==
  CURRENT_PERFORMANCE - Get(lastHit, name, 0) >= refractory

\* ok (useBands.ts:105-107)
RefractoryOk(CURRENT_PERFORMANCE, lastHit, name, refractory) ==
  CURRENT_PERFORMANCE - Get(lastHit, name, 0) > refractory

\* Two ifs in a row instead of if/else: a band that has just entered is
\* tested for exit in the same frame.
NextActive_FallThrough(WAS_ACTIVE, CURRENT_HIT, leave) ==
  (WAS_ACTIVE \/ CURRENT_HIT) /\ ~leave

\* The if/else of useBands.ts:92-103: the active flag the frame leaves, from
\* the flag it found, CURRENT_HIT and the exit condition.
NextActive(WAS_ACTIVE, CURRENT_HIT, leave) ==
  IF ~WAS_ACTIVE THEN CURRENT_HIT ELSE ~leave

\* REF_LAST_HIT written on every raw hit, accepted or not.
NextLastHit_OnEveryHit(lastHit, name, CURRENT_HIT, ok, CURRENT_PERFORMANCE) ==
  IF CURRENT_HIT THEN Put(lastHit, name, CURRENT_PERFORMANCE) ELSE lastHit

\* REF_LAST_HIT after useBands.ts:108-109.
NextLastHit(lastHit, name, CURRENT_HIT, ok, CURRENT_PERFORMANCE) ==
  IF CURRENT_HIT /\ ok THEN Put(lastHit, name, CURRENT_PERFORMANCE) ELSE lastHit

\* The flash band test passing for every band.
IsStrobeBand_Any(band, Config) == band.name \in BandNames

\* The flash band test (useBands.ts:110).
IsStrobeBand(band, Config) == band.name = Config.StrobeFlashBand

\* The snapshot with ratio and riseDb in each other's place.
BandSnapshot_Swapped(band, energy, ratio, riseDb, active) ==
  [name |-> band.name, energy |-> energy, ratio |-> riseDb, riseDb |-> ratio,
   active |-> active]

\* The snapshot pushed for a band (useBands.ts:112-118).
BandSnapshot(band, energy, ratio, riseDb, active) ==
  [name |-> band.name, energy |-> energy, ratio |-> ratio, riseDb |-> riseDb,
   active |-> active]

\* REF_SNAP_SHOTS extended in place instead of replaced.
PublishedSnaps_Appended(previous, snaps) == previous \o snaps

\* REF_SNAP_SHOTS.current = snaps (useBands.ts:120).
PublishedSnaps(previous, snaps) == snaps

\* The key of every band being the one name.
BandKey_Shared(band) == "STROBE_FLASH"

\* BAND_NAME, the key of a band in the refs (useBands.ts:73).
BandKey(band) == band.name

\* A hit on every frame in which the entry condition holds.
CurrentHit_Level(WAS_ACTIVE, enter) == enter

\* CURRENT_HIT: the entry condition is tested only for a band that is not
\* active (useBands.ts:91-99).
CurrentHit(WAS_ACTIVE, enter) == ~WAS_ACTIVE /\ enter

\* One iteration of the loop over Config.bands.  s carries the refs and the
\* locals STROBE_FLASH and snaps; hits and trigs collect the names of the
\* bands with CURRENT_HIT and with CURRENT_HIT && ok in this call.
StepBand(s, band, Config, DATA_ARRAY, SAMPLE_RATE, FFT_SIZE, CURRENT_PERFORMANCE) ==
  LET BIN_FREQUENCY_LOW == hzToBin(band.lowHz, SAMPLE_RATE, FFT_SIZE)
      BIN_FREQUENCY_HIGH == hzToBin(band.highHz, SAMPLE_RATE, FFT_SIZE)
      energy == bandEnergy(DATA_ARRAY, BIN_FREQUENCY_LOW, BIN_FREQUENCY_HIGH)
      BAND_NAME == BandKey(band)
      EMA_PREVIOUS_SHORT == Get(s.emaShort, BAND_NAME, energy)
      EMA_PREVIOUS_LONG == Get(s.emaLong, BAND_NAME, energy)
      EMA_CURRENT_SHORT == EmaUpdate(Config.emaShortAlpha, EMA_PREVIOUS_SHORT, energy)
      EMA_CURRENT_LONG == EmaUpdate(Config.emaLongAlpha, EMA_PREVIOUS_LONG, energy)
      ratio == CURRENT_RATIO(EMA_CURRENT_SHORT, EMA_CURRENT_LONG)
      riseDb == RISE_DB(ratio)
      WAS_ACTIVE == Get(s.state, BAND_NAME, [active |-> FALSE]).active
      CURRENT_HIT == CurrentHit(WAS_ACTIVE, EnterActive(band, energy, ratio, riseDb))
      ACTIVE == NextActive(WAS_ACTIVE, CURRENT_HIT, LeaveActive(band, ratio, riseDb))
      ok == RefractoryOk(CURRENT_PERFORMANCE, s.lastHit, BAND_NAME, Refractory(band))
  IN  [emaShort |-> Put(s.emaShort, BAND_NAME, EMA_CURRENT_SHORT),
       emaLong |-> Put(s.emaLong, BAND_NAME, EMA_CURRENT_LONG),
       state |-> Put(s.state, BAND_NAME, [active |-> ACTIVE]),
       lastHit |-> NextLastHit(s.lastHit, BAND_NAME, CURRENT_HIT, ok,
                               CURRENT_PERFORMANCE),
       STROBE_FLASH |-> s.STROBE_FLASH
                          \/ (CURRENT_HIT /\ ok /\ IsStrobeBand(band, Config)),
       snaps |-> Append(s.snaps,
                        BandSnapshot(band, energy, ratio, riseDb, ACTIVE)),
       hits |-> IF CURRENT_HIT THEN s.hits \cup {BAND_NAME} ELSE s.hits,
       trigs |-> IF CURRENT_HIT /\ ok THEN s.trigs \cup {BAND_NAME} ELSE s.trigs]

----------------------------------------------------------------------------
(* The arithmetic of step's EMA update in IEEE 754 doubles.  A non-negative
   number is held exactly, as Limbs digits in base LimbBase = 2^LimbBits, the
   digit at place 0 worth 2^(-FracBits).  Every operation of the code is the
   exact operation followed by rounding to SignificandBits significant
   binary digits, ties to even; the numbers met here are far from overflow
   and underflow. *)

\* Significant binary digits of a JavaScript number.
SignificandBits == 53
\* Binary digits per limb, limbs after the binary point and limbs in all.
LimbBits == 15
LimbBase == 2 ^ LimbBits
FracLimbs == 4
FracBits == FracLimbs * LimbBits
Limbs == 11
\* n limbs of zero.
RECURSIVE DoubleZeros(_)
DoubleZeros(n) == IF n = 0 THEN <<>> ELSE <<0>> \o DoubleZeros(n - 1)
DoubleZero == DoubleZeros(Limbs)
\* The number with the limbs w[1], w[2], ... from place 0 up.
DoubleOfLimbs(w) == w \o DoubleZeros(Limbs - Len(w))
\* The integer n, 0 <= n < LimbBase.
DoubleOfInt(n) == DoubleZeros(FracLimbs) \o <<n>> \o DoubleZeros(Limbs - FracLimbs - 1)
\* 2^(k - FracBits)
DoublePow2(k) ==
  DoubleZeros(k \div LimbBits) \o <<2 ^ (k % LimbBits)>>
    \o DoubleZeros(Limbs - (k \div LimbBits) - 1)
\* The binary digit of x at place k.
DoubleBit(x, k) == (x[(k \div LimbBits) + 1] \div (2 ^ (k % LimbBits))) % 2

\* The exact sum, by carries, from limb i on.
RECURSIVE DoubleSumFrom(_, _, _, _)
DoubleSumFrom(x, y, i, carry) ==
  IF i > Limbs
  THEN <<>>
  ELSE <<(x[i] + y[i] + carry) % LimbBase>>
         \o DoubleSumFrom(x, y, i + 1, (x[i] + y[i] + carry) \div LimbBase)
DoubleSum(x, y) == DoubleSumFrom(x, y, 1, 0)
\* The exact difference x - y, for x >= y, by borrows.
RECURSIVE DoubleDifferenceFrom(_, _, _, _)
DoubleDifferenceFrom(x, y, i, borrow) ==
  IF i > Limbs
  THEN <<>>
  ELSE <<(x[i] - y[i] - borrow + LimbBase) % LimbBase>>
         \o DoubleDifferenceFrom(x, y, i + 1,
                                 IF x[i] - y[i] - borrow < 0 THEN 1 ELSE 0)
DoubleDifference(x, y) == DoubleDifferenceFrom(x, y, 1, 0)
\* x times the limb d.
RECURSIVE DoubleTimesLimbFrom(_, _, _, _)
DoubleTimesLimbFrom(x, d, i, carry) ==
  IF i > Limbs
  THEN <<>>
  ELSE <<(x[i] * d + carry) % LimbBase>>
         \o DoubleTimesLimbFrom(x, d, i + 1, (x[i] * d + carry) \div LimbBase)
DoubleTimesLimb(x, d) == DoubleTimesLimbFrom(x, d, 1, 0)
\* x moved up and down by k limbs.
DoubleShiftUp(x, k) == DoubleZeros(k) \o SubSeq(x, 1, Limbs - k)
DoubleShiftDown(x, k) == SubSeq(x, k + 1, Limbs) \o DoubleZeros(k)
\* The exact product x * y times 2^FracBits, limb by limb of y.
RECURSIVE DoubleProductFrom(_, _, _)
DoubleProductFrom(x, y, j) ==
  IF j > Limbs
  THEN DoubleZero
  ELSE IF y[j] = 0
       THEN DoubleProductFrom(x, y, j + 1)
       ELSE DoubleSum(DoubleShiftUp(DoubleTimesLimb(x, y[j]), j - 1),
                      DoubleProductFrom(x, y, j + 1))

\* The place of the highest binary digit that is 1 (-1 for zero).
DoubleTop(x) ==
  IF x = DoubleZero
  THEN -1
  ELSE CHOOSE k \in 0..(Limbs * LimbBits - 1) :
         /\ DoubleBit(x, k) = 1
         /\ \A j \in (k + 1)..(Limbs * LimbBits - 1) : DoubleBit(x, j) = 0
\* x with the binary digits below place k cleared, from limb i on.
RECURSIVE DoubleKeptFrom(_, _, _)
DoubleKeptFrom(x, k, i) ==
  IF i > Limbs
  THEN <<>>
  ELSE <<IF i * LimbBits <= k THEN 0
         ELSE IF (i - 1) * LimbBits >= k THEN x[i]
         ELSE (x[i] \div (2 ^ (k % LimbBits))) * (2 ^ (k % LimbBits))>>
         \o DoubleKeptFrom(x, k, i + 1)
\* Rounding to SignificandBits significant digits, ties to even.
DoubleRound(x) ==
  LET k == DoubleTop(x) - (SignificandBits - 1)
  IN  IF k <= 0
      THEN x
      ELSE LET up == /\ DoubleBit(x, k - 1) = 1
                     /\ (DoubleBit(x, k) = 1
                         \/ \E i \in 0..(k - 2) : DoubleBit(x, i) = 1)
           IN  IF up
               THEN DoubleSum(DoubleKeptFrom(x, k, 1), DoublePow2(k))
               ELSE DoubleKeptFrom(x, k, 1)

\* x + y, x - y and x * y as the code computes them.
DoubleAdd(x, y) == DoubleRound(DoubleSum(x, y))
DoubleSubtract(x, y) == DoubleRound(DoubleDifference(x, y))
DoubleMultiply(x, y) ==
  DoubleShiftDown(DoubleRound(DoubleProductFrom(x, y, 1)), FracLimbs)
\* x < y
DoubleLess(x, y) ==
  \E i \in 1..Limbs : x[i] < y[i] /\ \A j \in (i + 1)..Limbs : x[j] = y[j]

\* The smoothing coefficients as doubles, limbs from place 0 up:
\* 0.45 = 0x1CCCCCCCCCCCCD * 2^-54 and 0.03 = 0x1EB851EB851EB8 * 2^-58
\* (emaShortAlpha and emaLongAlpha of VISUAL_CONFIG), and 1/2 and 1/4.
AlphaNames == {"0.45", "0.03", "0.5", "0.25"}
AlphaDouble(a) ==
  CASE a = "0.45" -> DoubleOfLimbs(<<13120, 26214, 19660, 14745, 0>>)
    [] a = "0.03" -> DoubleOfLimbs(<<31456, 23592, 1310, 983, 0>>)
    [] a = "0.5" -> DoublePow2(FracBits - 1)
    [] a = "0.25" -> DoublePow2(FracBits - 2)

\* (1 - alpha) * previous + alpha * energy (useBands.ts:78-81).
EmaDouble(alpha, previous, energy) ==
  DoubleAdd(DoubleMultiply(DoubleSubtract(DoublePow2(FracBits), alpha), previous),
            DoubleMultiply(alpha, energy))

----------------------------------------------------------------------------
(* State. *)

VARIABLES
  analyserRef,      \* analyserRef.current: <<>> (null) or <<the AnalyserNode>>
  config,           \* the config prop of Scene
  REF_BYTE,         \* REF_BYTE.current: <<>> (null) or <<the array>>
  REF_EMA_SHORT,    \* band name -> emaShort * Scale
  REF_EMA_LONG,     \* band name -> emaLong * Scale
  REF_STATE,        \* band name -> [active]
  REF_LAST_HIT,     \* band name -> time of the last accepted trigger
  REF_SNAP_SHOTS,   \* snapshotsRef.current
  REF_STROBE_FLASH_TRIGGER,  \* strobeFlashTriggeredRef.current
  flashStarts,      \* flashes StrobeFlashLayer has started
  strobeDucks,      \* strobe ducks FestiveVisualLayer has started
  now,              \* performance.now() at the latest frame
  frame,            \* runs of Scene's frame callback so far
  limit,            \* the number of frames the behaviour is followed for
  renders,          \* renders of Scene after the first
  micEvents,        \* microphone starts and stops so far
  last,             \* the latest frame: whether it ran step, its hits and triggers
  hitLog,           \* band name -> its raw hits so far: [t, ok, refractory, flash]
  heard,            \* the spectra [lo, hi] step has read so far
  twin,             \* a second useBands instance fed the same frames, or NoTwin
  call              \* the latest call of a function on its own: [fn, ...]

hookVars == <<REF_BYTE, REF_EMA_SHORT, REF_EMA_LONG, REF_STATE, REF_LAST_HIT,
              REF_SNAP_SHOTS, REF_STROBE_FLASH_TRIGGER>>
layerVars == <<flashStarts, strobeDucks>>
traceVars == <<hitLog, heard, twin>>
vars == <<analyserRef, config, hookVars, layerVars, now, frame, limit,
          renders, micEvents, last, traceVars, call>>

\* The times at which Scene can be mounted, the times between two frames and
\* the byte values of the arrays read from the analyser.
StartTimes == {0, 200}
FrameTimes == {0, 50, 60}
Spectra == {[lo |-> 0, hi |-> 0], [lo |-> 255, hi |-> 200]}

NoStep == [stepped |-> FALSE, hits |-> {}, trigs |-> {}]
NoCall == [fn |-> "none"]
\* No second instance is followed.
NoTwin == [view |-> "none"]

\* The refs as useRef creates them and as the mount effect of useBands
\* (useBands.ts:124-131) leaves them; setupAnalyser, run by Scene's effect at
\* mount, returns at once because analyserRef.current is null.
Init ==
  /\ analyserRef = <<>>
  /\ config \in Configs
  /\ REF_BYTE = <<>>
  /\ REF_EMA_SHORT = EmptyRecord
  /\ REF_EMA_LONG = EmptyRecord
  /\ REF_STATE = EmptyRecord
  /\ REF_LAST_HIT = EmptyRecord
  /\ REF_SNAP_SHOTS = <<>>
  /\ REF_STROBE_FLASH_TRIGGER = FALSE
  /\ flashStarts = 0
  /\ strobeDucks = 0
  /\ now \in StartTimes
  /\ frame = 0
  /\ limit = MaxFrames
  /\ renders = 0
  /\ micEvents = 0
  /\ last = NoStep
  /\ hitLog = [n \in BandNames |-> <<>>]
  /\ heard = {}
  /\ twin = NoTwin
  /\ call = NoCall

----------------------------------------------------------------------------
(* useBands. *)

\* setupAnalyser assigning Config.fftSize whatever it is.
setupAnalyser_NoDefault(Analyser, Config) ==
  IF Analyser = <<>>
  THEN Analyser
  ELSE <<[Analyser[1] EXCEPT !.fftSize = IF "fftSize" \in DOMAIN Config
                                         THEN Config.fftSize ELSE 0,
                             !.minDecibels = Config.minDecibels,
                             !.maxDecibels = Config.maxDecibels,
                             !.smoothingTimeConstant = Config.spectrumSmoothing]>>

\* setupAnalyser (useBands.ts:36-49): the analyser it leaves.  A config
\* without fftSize has Config.fftSize undefined, which is falsy like 0.
setupAnalyser(Analyser, Config) ==
  IF Analyser = <<>>
  THEN Analyser
  ELSE LET fft == IF "fftSize" \in DOMAIN Config /\ Config.fftSize # 0
                       /\ Config.fftSize >= 32
                       /\ Config.fftSize <= 32768
                  THEN Config.fftSize
                  ELSE 2048
       IN  <<[Analyser[1] EXCEPT !.fftSize = fft,
                                 !.minDecibels = Config.minDecibels,
                                 !.maxDecibels = Config.maxDecibels,
                                 !.smoothingTimeConstant = Config.spectrumSmoothing]>>

\* REF_BYTE.current never replaced once it exists.
ByteArray_Stale(byte, frequencyBinCount) ==
  IF byte = <<>> THEN frequencyBinCount ELSE byte[1].len

\* The length of the array step reads into (useBands.ts:52-58): a new array
\* of frequencyBinCount bytes when there is none or its length differs, else
\* the one there is.
ByteArray(byte, frequencyBinCount) ==
  IF byte = <<>> \/ byte[1].len # frequencyBinCount
  THEN frequencyBinCount
  ELSE byte[1].len

\* STROBE_FLASH starting from the value the flag holds.
StrobeFlashStart_Kept(flag) == flag

\* let STROBE_FLASH = false (useBands.ts:63), whatever the flag holds.
StrobeFlashStart(flag) == FALSE

\* step (useBands.ts:51-122) of an instance whose refs are s, on the array
\* DATA_ARRAY read at time CURRENT_PERFORMANCE: the refs it leaves, with the
\* hits and the accepted triggers of the call.
stepFrom(s, Analyser, Config, DATA_ARRAY, CURRENT_PERFORMANCE) ==
  LET SAMPLE_RATE == Analyser.sampleRate
      FFT_SIZE == Analyser.fftSize
      start == [emaShort |-> s.emaShort, emaLong |-> s.emaLong,
                state |-> s.state, lastHit |-> s.lastHit,
                STROBE_FLASH |-> StrobeFlashStart(s.flag), snaps |-> <<>>,
                hits |-> {}, trigs |-> {}]
      loop[i \in 0..Len(Config.bands)] ==
        IF i = 0
        THEN start
        ELSE StepBand(loop[i - 1], Config.bands[i], Config, DATA_ARRAY,
                      SAMPLE_RATE, FFT_SIZE, CURRENT_PERFORMANCE)
  IN  loop[Len(Config.bands)]

\* step of the instance Scene holds.
step(Analyser, Config, DATA_ARRAY, CURRENT_PERFORMANCE) ==
  stepFrom([emaShort |-> REF_EMA_SHORT, emaLong |-> REF_EMA_LONG,
            state |-> REF_STATE, lastHit |-> REF_LAST_HIT,
            flag |-> REF_STROBE_FLASH_TRIGGER],
           Analyser, Config, DATA_ARRAY, CURRENT_PERFORMANCE)

\* The config the second instance is given: the same one, the same bands in
\* reverse order, or only the first or only the last band.
RECURSIVE Reversed(_)
Reversed(q) == IF q = <<>> THEN <<>> ELSE Append(Reversed(Tail(q)), Head(q))
TwinConfig(view, Config) ==
  CASE view = "same" -> Config
    [] view = "reversed" -> [Config EXCEPT !.bands = Reversed(Config.bands)]
    [] view = "first" -> [Config EXCEPT !.bands = <<Config.bands[1]>>]
    [] view = "last" -> [Config EXCEPT !.bands = <<Config.bands[Len(Config.bands)]>>]

\* A second instance as useRef and the mount effect leave it.
FreshTwin(view) ==
  [view |-> view, emaShort |-> EmptyRecord, emaLong |-> EmptyRecord,
   state |-> EmptyRecord, lastHit |-> EmptyRecord, snaps |-> <<>>,
   flag |-> FALSE]

\* step of the second instance, on the same analyser, array and time.
TwinStep(t, Analyser, Config, DATA_ARRAY, CURRENT_PERFORMANCE) ==
  LET r == stepFrom(t, Analyser, TwinConfig(t.view, Config), DATA_ARRAY,
                    CURRENT_PERFORMANCE)
  IN  [view |-> t.view, emaShort |-> r.emaShort, emaLong |-> r.emaLong,
       state |-> r.state, lastHit |-> r.lastHit,
       snaps |-> PublishedSnaps(t.snaps, r.snaps), flag |-> r.STROBE_FLASH]

\* The raw hits of a step, appended to each band's log.
Logged(log, Config, r, t) ==
  [n \in BandNames |->
     IF n \in r.hits
     THEN LET band == CHOOSE b \in {Config.bands[i] : i \in 1..Len(Config.bands)} :
                        b.name = n
          IN  Append(log[n], [t |-> t, ok |-> n \in r.trigs,
                              refractory |-> Refractory(band),
                              flash |-> n = Config.StrobeFlashBand])
     ELSE log[n]]

----------------------------------------------------------------------------
(* Operations. *)

\* The frame callback emptying the snapshot list when there is no analyser.
SceneFrame_ClearsSnapshots(dt, lo, hi) ==
  /\ frame < limit
  /\ frame' = frame + 1
  /\ now' = now + dt
  /\ IF analyserRef = <<>>
     THEN /\ REF_SNAP_SHOTS' = <<>>
          /\ UNCHANGED <<REF_BYTE, REF_EMA_SHORT, REF_EMA_LONG, REF_STATE,
                         REF_LAST_HIT, REF_STROBE_FLASH_TRIGGER, traceVars>>
          /\ last' = NoStep
     ELSE LET ANALYZER == analyserRef[1]
              DATA_ARRAY == [len |-> ByteArray(REF_BYTE, ANALYZER.fftSize \div 2),
                             lo |-> lo, hi |-> hi]
          IN  \E r \in {step(ANALYZER, config, DATA_ARRAY, now + dt)} :
              /\ REF_BYTE' = <<DATA_ARRAY>>
              /\ REF_EMA_SHORT' = r.emaShort
              /\ REF_EMA_LONG' = r.emaLong
              /\ REF_STATE' = r.state
              /\ REF_LAST_HIT' = r.lastHit
              /\ REF_SNAP_SHOTS' = PublishedSnaps(REF_SNAP_SHOTS, r.snaps)
              /\ REF_STROBE_FLASH_TRIGGER' = r.STROBE_FLASH
              /\ last' = [stepped |-> TRUE, hits |-> r.hits, trigs |-> r.trigs]
              /\ hitLog' = Logged(hitLog, config, r, now + dt)
              /\ heard' = heard \cup {[lo |-> lo, hi |-> hi]}
              /\ twin' = IF twin = NoTwin
                         THEN twin
                         ELSE TwinStep(twin, ANALYZER, config, DATA_ARRAY, now + dt)
  /\ UNCHANGED <<analyserRef, config, layerVars, limit, renders, micEvents, call>>

\* Scene's useFrame callback (UI.tsx:75-79), dt ms after the previous frame,
\* the analyser holding an array flat at lo and then at hi.
SceneFrame(dt, lo, hi) ==
  /\ frame < limit
  /\ frame' = frame + 1
  /\ now' = now + dt
  /\ IF analyserRef = <<>>
     THEN /\ UNCHANGED <<hookVars, traceVars>>
          /\ last' = NoStep
     ELSE LET ANALYZER == analyserRef[1]
              DATA_ARRAY == [len |-> ByteArray(REF_BYTE, ANALYZER.fftSize \div 2),
                             lo |-> lo, hi |-> hi]
          IN  \E r \in {step(ANALYZER, config, DATA_ARRAY, now + dt)} :
              /\ REF_BYTE' = <<DATA_ARRAY>>
              /\ REF_EMA_SHORT' = r.emaShort
              /\ REF_EMA_LONG' = r.emaLong
              /\ REF_STATE' = r.state
              /\ REF_LAST_HIT' = r.lastHit
              /\ REF_SNAP_SHOTS' = PublishedSnaps(REF_SNAP_SHOTS, r.snaps)
              /\ REF_STROBE_FLASH_TRIGGER' = r.STROBE_FLASH
              /\ last' = [stepped |-> TRUE, hits |-> r.hits, trigs |-> r.trigs]
              /\ hitLog' = Logged(hitLog, config, r, now + dt)
              /\ heard' = heard \cup {[lo |-> lo, hi |-> hi]}
              /\ twin' = IF twin = NoTwin
                         THEN twin
                         ELSE TwinStep(twin, ANALYZER, config, DATA_ARRAY, now + dt)
  /\ UNCHANGED <<analyserRef, config, layerVars, limit, renders, micEvents, call>>

\* Scene rendered again with the config Config: its effect (UI.tsx:71-73)
\* runs setupAnalyser on the current analyser.
SceneRender(Config) ==
  /\ renders < MaxRenders
  /\ renders' = renders + 1
  /\ config' = Config
  /\ analyserRef' = setupAnalyser(analyserRef, Config)
  /\ UNCHANGED <<hookVars, layerVars, now, frame, limit, micEvents, last, traceVars,
                 call>>

\* onMicStart (ProcessMic.tsx:41-65): a new analyser with fftSize 2048 on a
\* 44100 Hz context; the other attributes are the Web Audio defaults.
onMicStart ==
  /\ micEvents < MaxMicEvents + 1
  /\ micEvents' = micEvents + 1
  /\ analyserRef' = <<[fftSize |-> 2048, sampleRate |-> 44100,
                       minDecibels |-> -100, maxDecibels |-> -30,
                       smoothingTimeConstant |-> 80]>>
  /\ UNCHANGED <<config, hookVars, layerVars, now, frame, limit, renders, last,
                 traceVars, call>>

\* onMicStop (ProcessMic.tsx:67-79).
onMicStop ==
  /\ micEvents < MaxMicEvents + 1
  /\ analyserRef # <<>>
  /\ micEvents' = micEvents + 1
  /\ analyserRef' = <<>>
  /\ UNCHANGED <<config, hookVars, layerVars, now, frame, limit, renders, last,
                 traceVars, call>>

\* The flash layer starting a flash without clearing kickRef.current.
StrobeFlashLayerFrame_KeepsKick ==
  /\ REF_STROBE_FLASH_TRIGGER
  /\ flashStarts' = flashStarts + 1
  /\ UNCHANGED <<analyserRef, config, hookVars, strobeDucks, now,
                 frame, limit, renders, micEvents, last, traceVars, call>>

\* StrobeFlashLayer's useFrame callback (StrobeFlashLayer.tsx:87-118), when
\* kickRef.current is set: it starts a flash and clears the flag.
StrobeFlashLayerFrame ==
  /\ REF_STROBE_FLASH_TRIGGER
  /\ flashStarts' = flashStarts + 1
  /\ REF_STROBE_FLASH_TRIGGER' = FALSE
  /\ UNCHANGED <<analyserRef, config, REF_BYTE, REF_EMA_SHORT, REF_EMA_LONG,
                 REF_STATE, REF_LAST_HIT, REF_SNAP_SHOTS, strobeDucks, now,
                 frame, limit, renders, micEvents, last, traceVars, call>>

\* FestiveVisualLayer's useFrame callback (FestiveVisualLayer.tsx:62-100),
\* when strobeRef.current is set: it starts the duck and clears the flag.
FestiveVisualLayerFrame ==
  /\ REF_STROBE_FLASH_TRIGGER
  /\ strobeDucks' = strobeDucks + 1
  /\ REF_STROBE_FLASH_TRIGGER' = FALSE
  /\ UNCHANGED <<analyserRef, config, REF_BYTE, REF_EMA_SHORT, REF_EMA_LONG,
                 REF_STATE, REF_LAST_HIT, REF_SNAP_SHOTS, flashStarts, now,
                 frame, limit, renders, micEvents, last, traceVars, call>>

Next ==
  \/ \E dt \in FrameTimes, d \in Spectra : SceneFrame(dt, d.lo, d.hi)
  \/ \E Config \in Configs : SceneRender(Config)
  \/ onMicStart
  \/ onMicStop
  \/ StrobeFlashLayerFrame
  \/ FestiveVisualLayerFrame

Spec == Init /\ [][Next]_vars

\* The frame loop alone, from the state onMicStart leaves after mounting.
InitRun ==
  /\ analyserRef = <<[fftSize |-> 2048, sampleRate |-> 44100,
                      minDecibels |-> -100, maxDecibels |-> -30,
                      smoothingTimeConstant |-> 80]>>
  /\ config \in Configs
  /\ REF_BYTE = <<>>
  /\ REF_EMA_SHORT = EmptyRecord
  /\ REF_EMA_LONG = EmptyRecord
  /\ REF_STATE = EmptyRecord
  /\ REF_LAST_HIT = EmptyRecord
  /\ REF_SNAP_SHOTS = <<>>
  /\ REF_STROBE_FLASH_TRIGGER = FALSE
  /\ flashStarts = 0
  /\ strobeDucks = 0
  /\ now \in StartTimes
  /\ frame = 0
  /\ limit = MaxRunFrames
  /\ renders = 0
  /\ micEvents = 1
  /\ last = NoStep
  /\ hitLog = [n \in BandNames |-> <<>>]
  /\ heard = {}
  /\ twin = NoTwin
  /\ call = NoCall

NextRun == \E dt \in FrameTimes, d \in Spectra : SceneFrame(dt, d.lo, d.hi)

SpecRun == InitRun /\ [][NextRun]_vars

\* The frame loop with the two layers that consume the flash flag.
NextShow ==
  \/ \E dt \in FrameTimes, d \in Spectra : SceneFrame(dt, d.lo, d.hi)
  \/ StrobeFlashLayerFrame
  \/ FestiveVisualLayerFrame

SpecShow == InitRun /\ [][NextShow]_vars

\* The frame loop and the two layers, with a second instance of useBands
\* that is given the same config and frames and whose flag no layer touches.
InitTwin ==
  /\ analyserRef = <<[fftSize |-> 2048, sampleRate |-> 44100,
                      minDecibels |-> -100, maxDecibels |-> -30,
                      smoothingTimeConstant |-> 80]>>
  /\ config \in Configs
  /\ REF_BYTE = <<>>
  /\ REF_EMA_SHORT = EmptyRecord
  /\ REF_EMA_LONG = EmptyRecord
  /\ REF_STATE = EmptyRecord
  /\ REF_LAST_HIT = EmptyRecord
  /\ REF_SNAP_SHOTS = <<>>
  /\ REF_STROBE_FLASH_TRIGGER = FALSE
  /\ flashStarts = 0
  /\ strobeDucks = 0
  /\ now \in StartTimes
  /\ frame = 0
  /\ limit = MaxRunFrames
  /\ renders = 0
  /\ micEvents = 1
  /\ last = NoStep
  /\ hitLog = [n \in BandNames |-> <<>>]
  /\ heard = {}
  /\ twin = FreshTwin("same")
  /\ call = NoCall

SpecTwin == InitTwin /\ [][NextShow]_vars

\* The frame loop with a second instance that is given the bands in reverse
\* order, or only the first or only the last of them.
InitApart ==
  /\ analyserRef = <<[fftSize |-> 2048, sampleRate |-> 44100,
                      minDecibels |-> -100, maxDecibels |-> -30,
                      smoothingTimeConstant |-> 80]>>
  /\ config \in Configs
  /\ REF_BYTE = <<>>
  /\ REF_EMA_SHORT = EmptyRecord
  /\ REF_EMA_LONG = EmptyRecord
  /\ REF_STATE = EmptyRecord
  /\ REF_LAST_HIT = EmptyRecord
  /\ REF_SNAP_SHOTS = <<>>
  /\ REF_STROBE_FLASH_TRIGGER = FALSE
  /\ flashStarts = 0
  /\ strobeDucks = 0
  /\ now \in StartTimes
  /\ frame = 0
  /\ limit = MaxRunFrames
  /\ renders = 0
  /\ micEvents = 1
  /\ last = NoStep
  /\ hitLog = [n \in BandNames |-> <<>>]
  /\ heard = {}
  /\ twin \in {FreshTwin(view) : view \in {"reversed", "first", "last"}}
  /\ call = NoCall

SpecApart == InitApart /\ [][NextRun]_vars

\* The frame loop under VISUAL_CONFIG with an array that is the same on
\* every frame, every byte at one value.
HeldBytes == 0..255
InitHold ==
  /\ analyserRef = <<[fftSize |-> 2048, sampleRate |-> 44100,
                      minDecibels |-> -100, maxDecibels |-> -30,
                      smoothingTimeConstant |-> 80]>>
  /\ config = ConfigShipped
  /\ REF_BYTE = <<>>
  /\ REF_EMA_SHORT = EmptyRecord
  /\ REF_EMA_LONG = EmptyRecord
  /\ REF_STATE = EmptyRecord
  /\ REF_LAST_HIT = EmptyRecord
  /\ REF_SNAP_SHOTS = <<>>
  /\ REF_STROBE_FLASH_TRIGGER = FALSE
  /\ flashStarts = 0
  /\ strobeDucks = 0
  /\ now \in StartTimes
  /\ frame = 0
  /\ limit = MaxRunFrames
  /\ renders = 0
  /\ micEvents = 1
  /\ last = NoStep
  /\ hitLog = [n \in BandNames |-> <<>>]
  /\ heard = {}
  /\ twin = NoTwin
  /\ call = NoCall

NextHold ==
  \E dt \in FrameTimes, v \in HeldBytes :
    /\ heard \subseteq {[lo |-> v, hi |-> v]}
    /\ SceneFrame(dt, v, v)

SpecHold == InitHold /\ [][NextHold]_vars

\* Scene under configs whose one band has bounds that are negative, zero,
\* equal, reversed or above the Nyquist frequency, with fftSize 32 or 2048;
\* the microphone is started and restarted and Scene rendered again with the
\* other fftSize, frames coming EdgeFrameTime ms apart.
EdgeHz == {-100, 0, 150, 30000}
EdgeFftSizes == {32, 2048}
EdgeFrameTime == 50
EdgeConfigs ==
  {[ConfigNoFlash EXCEPT
      !.fftSize = f,
      !.bands = <<[ConfigNoFlash.bands[1] EXCEPT !.lowHz = a, !.highHz = b]>>] :
     a \in EdgeHz, b \in EdgeHz, f \in EdgeFftSizes}
InitBands ==
  /\ analyserRef = <<>>
  /\ config \in EdgeConfigs
  /\ REF_BYTE = <<>>
  /\ REF_EMA_SHORT = EmptyRecord
  /\ REF_EMA_LONG = EmptyRecord
  /\ REF_STATE = EmptyRecord
  /\ REF_LAST_HIT = EmptyRecord
  /\ REF_SNAP_SHOTS = <<>>
  /\ REF_STROBE_FLASH_TRIGGER = FALSE
  /\ flashStarts = 0
  /\ strobeDucks = 0
  /\ now \in StartTimes
  /\ frame = 0
  /\ limit = MaxFrames
  /\ renders = 0
  /\ micEvents = 0
  /\ last = NoStep
  /\ hitLog = [n \in BandNames |-> <<>>]
  /\ heard = {}
  /\ twin = NoTwin
  /\ call = NoCall

NextBands ==
  \/ \E d \in Spectra : SceneFrame(EdgeFrameTime, d.lo, d.hi)
  \/ \E f \in EdgeFftSizes : SceneRender([config EXCEPT !.fftSize = f])
  \/ onMicStart

SpecBands == InitBands /\ [][NextBands]_vars

----------------------------------------------------------------------------
(* The functions of useBands called on their own. *)

\* The arguments tried.
HzValues == {-100, 0, 21, 22, 50, 150, 2000, 22049, 22050, 24000, 1000000000}
SampleRates == {44100, 48000}
FftSizes == {2, 32, 2048, 32768}
Arrays == {[len |-> 0, lo |-> 0, hi |-> 0], [len |-> 16, lo |-> 10, hi |-> 200],
           [len |-> 32, lo |-> 255, hi |-> 7]}
Indices == {-2, -1, 0, 1, 5, 15, 16, 17, 40}
Bytes == 0..255
ConfiguredFftSizes == {-1, 0, 16, 31, 32, 64, 2048, 32768, 65536}
NoFftSize == [f \in DOMAIN ConfigStrobe \ {"fftSize"} |-> ConfigStrobe[f]]
FreshAnalyser == [fftSize |-> 2048, sampleRate |-> 44100, minDecibels |-> -100,
                  maxDecibels |-> -30, smoothingTimeConstant |-> 80]

\* hzToBin(hz, sampleRate, fftSize)
CallHzToBin(hz, sampleRate, fftSize) ==
  /\ call = NoCall
  /\ call' = [fn |-> "hzToBin", hz |-> hz, sampleRate |-> sampleRate,
              fftSize |-> fftSize, bin |-> hzToBin(hz, sampleRate, fftSize)]
  /\ UNCHANGED <<analyserRef, config, hookVars, layerVars, now, frame, limit,
                 renders, micEvents, last, traceVars>>

\* bandEnergy(data, a, b) and bandEnergy(data, b, a)
CallBandEnergy(data, a, b) ==
  /\ call = NoCall
  /\ call' = [fn |-> "bandEnergy", data |-> data, a |-> a, b |-> b,
              span |-> BandSpan(data, a, b),
              energy |-> bandEnergy(data, a, b),
              swapped |-> bandEnergy(data, b, a)]
  /\ UNCHANGED <<analyserRef, config, hookVars, layerVars, now, frame, limit,
                 renders, micEvents, last, traceVars>>

\* The EMA lines of step (useBands.ts:74-83) for a band with no stored EMA,
\* in doubles: both previous values are energy.
CallFirstEma(alpha, energy) ==
  /\ call = NoCall
  /\ \E ema \in {EmaDouble(AlphaDouble(alpha), DoubleOfInt(energy),
                            DoubleOfInt(energy))} :
       call' = [fn |-> "ema", alpha |-> alpha, energy |-> energy,
                ema |-> IF ema = DoubleOfInt(energy) THEN "energy"
                        ELSE IF DoubleLess(ema, DoubleOfInt(energy)) THEN "below"
                        ELSE "above"]
  /\ UNCHANGED <<analyserRef, config, hookVars, layerVars, now, frame, limit,
                 renders, micEvents, last, traceVars>>

\* x compared with y: "below", "equal" or "above".
DoubleCompared(x, y) ==
  IF x = y THEN "equal" ELSE IF DoubleLess(x, y) THEN "below" ELSE "above"

\* The stored EMAs and the energies tried.
EmaPrevious == {0, 63, 100, 255}
EmaEnergies == {0, 15, 63, 100, 200, 255}

\* The EMA lines of step (useBands.ts:74-83) for a band whose stored EMA is
\* previous, in doubles: the new EMA compared with the energy, with the
\* stored EMA and with 255.
CallEma(alpha, previous, energy) ==
  /\ call = NoCall
  /\ \E ema \in {EmaDouble(AlphaDouble(alpha), DoubleOfInt(previous),
                            DoubleOfInt(energy))} :
       call' = [fn |-> "emaStep", alpha |-> alpha, previous |-> previous,
                energy |-> energy,
                toEnergy |-> DoubleCompared(ema, DoubleOfInt(energy)),
                toPrevious |-> DoubleCompared(ema, DoubleOfInt(previous)),
                toTop |-> DoubleCompared(ema, DoubleOfInt(255))]
  /\ UNCHANGED <<analyserRef, config, hookVars, layerVars, now, frame, limit,
                 renders, micEvents, last, traceVars>>

\* setupAnalyser(Analyser, Config)
CallSetupAnalyser(Analyser, Config) ==
  /\ call = NoCall
  /\ call' = [fn |-> "setupAnalyser", analyser |-> Analyser, config |-> Config,
              result |-> setupAnalyser(Analyser, Config)]
  /\ UNCHANGED <<analyserRef, config, hookVars, layerVars, now, frame, limit,
                 renders, micEvents, last, traceVars>>

NextCalls ==
  \/ \E hz \in HzValues, sampleRate \in SampleRates, fftSize \in FftSizes :
       CallHzToBin(hz, sampleRate, fftSize)
  \/ \E data \in Arrays, a \in Indices, b \in Indices : CallBandEnergy(data, a, b)
  \/ \E alpha \in AlphaNames, energy \in Bytes : CallFirstEma(alpha, energy)
  \/ \E alpha \in AlphaNames, previous \in EmaPrevious, energy \in EmaEnergies :
       CallEma(alpha, previous, energy)
  \/ \E Analyser \in {<<>>, <<FreshAnalyser>>},
        Config \in {NoFftSize} \cup {[ConfigStrobe EXCEPT !.fftSize = v] :
                                      v \in ConfiguredFftSizes} :
       CallSetupAnalyser(Analyser, Config)

SpecCalls == Init /\ [][NextCalls]_vars

\* The frame loop under the preset with negative thresholds, Scene being
\* rendered with it and running setupAnalyser on the installed analyser.
InitPreset ==
  /\ analyserRef = <<FreshAnalyser>>
  /\ config = ConfigNegative
  /\ REF_BYTE = <<>>
  /\ REF_EMA_SHORT = EmptyRecord
  /\ REF_EMA_LONG = EmptyRecord
  /\ REF_STATE = EmptyRecord
  /\ REF_LAST_HIT = EmptyRecord
  /\ REF_SNAP_SHOTS = <<>>
  /\ REF_STROBE_FLASH_TRIGGER = FALSE
  /\ flashStarts = 0
  /\ strobeDucks = 0
  /\ now \in StartTimes
  /\ frame = 0
  /\ limit = MaxRunFrames
  /\ renders = 0
  /\ micEvents = 1
  /\ last = NoStep
  /\ hitLog = [n \in BandNames |-> <<>>]
  /\ heard = {}
  /\ twin = NoTwin
  /\ call = NoCall

NextPreset ==
  \/ \E dt \in FrameTimes, d \in Spectra : SceneFrame(dt, d.lo, d.hi)
  \/ SceneRender(ConfigNegative)

SpecPreset == InitPreset /\ [][NextPreset]_vars

----------------------------------------------------------------------------
(* The fixed-point representation is exact on the behaviours checked. *)

\* Every stored EMA is a whole multiple of 1/Scale with the divisions by
\* AlphaDen still to come exact.
EmaExact ==
  \A n \in DOMAIN REF_EMA_SHORT :
    /\ REF_EMA_SHORT[n] % (AlphaDen ^ (MaxRunFrames - frame)) = 0
    /\ REF_EMA_LONG[n] % (AlphaDen ^ (MaxRunFrames - frame)) = 0

\* No ratio falls strictly between the floor and the ceiling of a tabulated
\* 10^(dB/20), where the table would not decide the comparison with riseDb.
DbDecided ==
  \A i \in 1..Len(REF_SNAP_SHOTS) : \A d \in DbGrid :
    ~(/\ Pow10Db(d).lo < Pow10Db(d).hi
      /\ REF_SNAP_SHOTS[i].ratio.lo = Pow10Db(d).lo
      /\ REF_SNAP_SHOTS[i].ratio.hi = Pow10Db(d).hi)

----------------------------------------------------------------------------
(* Vocabulary of the properties. *)

\* This step of the behaviour is a frame in which Scene called step.
StepTaken == frame' = frame + 1 /\ last'.stepped
\* The active flag a band has before its first observation is false.
Active(state, name) == Get(state, name, [active |-> FALSE]).active
\* The entry and the exit condition as the specification states them, read
\* off a band's snapshot.
EntryHolds(band, snap) ==
  /\ snap.energy >= band.absFloor * Scale
  /\ (snap.ratio.lo >= band.ratioOn \/ snap.riseDb.lo >= band.dbOn)
ExitHolds(band, snap) ==
  snap.ratio.hi <= band.ratioOff /\ snap.riseDb.hi <= band.dbOff
\* The positions of the accepted triggers in a band's log of raw hits.
Accepted(log) == {i \in 1..Len(log) : log[i].ok}
\* The accepted triggers before position j.
AcceptedBefore(log, j) == {i \in Accepted(log) : i < j}

----------------------------------------------------------------------------
(* Hysteresis transitions. *)

\* C1: in every frame in which step runs, a band that was inactive when the
\* frame began has a raw hit, and ends the frame active, exactly when its
\* energy is at least absFloor and its ratio is at least ratioOn or its
\* riseDb at least dbOn, the ratio being that of the EMAs as this frame
\* leaves them; so a band never activates below the floor, and with
\* absFloor 100, ratioOn 1.5 and dbOn 3 a band at ratio 1.0 stays inactive.
C1_EntryIff ==
  [][StepTaken =>
       \A i \in 1..Len(config.bands) :
         LET band == config.bands[i]
             snap == REF_SNAP_SHOTS'[i]
         IN  /\ snap.ratio = CURRENT_RATIO(REF_EMA_SHORT'[band.name],
                                           REF_EMA_LONG'[band.name])
             /\ ~Active(REF_STATE, band.name) =>
                  /\ band.name \in last'.hits <=> EntryHolds(band, snap)
                  /\ REF_STATE'[band.name].active <=> EntryHolds(band, snap)
                  /\ snap.energy < band.absFloor * Scale
                       => ~REF_STATE'[band.name].active
                  /\ (band.absFloor = 100 /\ band.ratioOn = 1500 /\ band.dbOn = 30
                      /\ snap.ratio.hi <= 1001)
                       => ~REF_STATE'[band.name].active
                  /\ (band.absFloor = 100 /\ band.ratioOn = 1500 /\ band.dbOn = 30
                      /\ snap.ratio.lo >= 1600 /\ snap.energy >= 100 * Scale)
                       => REF_STATE'[band.name].active
             /\ Active(REF_STATE, band.name) => band.name \notin last'.hits]_vars

\* A band with the thresholds of the example has activated at a ratio of at
\* least 1.6 and an energy of at least 100.
C1_Witness ==
  /\ last.stepped
  /\ Len(REF_SNAP_SHOTS) = Len(config.bands)
  /\ \E i \in 1..Len(config.bands) :
       /\ config.bands[i].absFloor = 100
       /\ config.bands[i].ratioOn = 1500
       /\ config.bands[i].dbOn = 30
       /\ config.bands[i].name \in last.hits
       /\ REF_SNAP_SHOTS[i].name = config.bands[i].name
       /\ REF_SNAP_SHOTS[i].ratio.lo >= 1600
       /\ REF_SNAP_SHOTS[i].energy >= 100 * Scale

\* C2: in every frame in which step runs, a band that was active when the
\* frame began ends it inactive exactly when ratio <= ratioOff and
\* riseDb <= dbOff both hold, and otherwise stays active, whatever its
\* energy is.
C2_ExitIff ==
  [][StepTaken =>
       \A i \in 1..Len(config.bands) :
         LET band == config.bands[i]
             snap == REF_SNAP_SHOTS'[i]
         IN  Active(REF_STATE, band.name) =>
               (~REF_STATE'[band.name].active <=> ExitHolds(band, snap))]_vars

\* A band stayed active through a frame in which its energy was below its
\* absFloor.
C2_Witness ==
  /\ last.stepped
  /\ Len(REF_SNAP_SHOTS) = Len(config.bands)
  /\ \E i \in 1..Len(config.bands) :
       /\ REF_SNAP_SHOTS[i].name = config.bands[i].name
       /\ REF_SNAP_SHOTS[i].active
       /\ config.bands[i].name \notin last.hits
       /\ REF_SNAP_SHOTS[i].energy < config.bands[i].absFloor * Scale
       /\ ~ExitHolds(config.bands[i], REF_SNAP_SHOTS[i])

----------------------------------------------------------------------------
(* Refractory gating. *)

\* C3: a raw hit after an accepted trigger of the same band is accepted only
\* when it comes strictly more than refractoryMs after that trigger, and an
\* accepted trigger becomes the band's last trigger time; so any two
\* accepted triggers of a band are strictly more than refractoryMs apart and
\* a hit exactly refractoryMs after the last accepted trigger is rejected.
C3_RefractoryStrict ==
  \A n \in BandNames :
    LET log == hitLog[n]
    IN  /\ \A j \in Accepted(log) : \A i \in AcceptedBefore(log, j) :
             log[j].t - log[i].t > log[j].refractory
        /\ \A j \in 1..Len(log) : \A i \in AcceptedBefore(log, j) :
             log[j].t - log[i].t = log[j].refractory => ~log[j].ok
        /\ Accepted(log) # {} =>
             /\ n \in DOMAIN REF_LAST_HIT
             /\ REF_LAST_HIT[n] = log[SetMax(Accepted(log))].t

\* A band with a refractory period of 100 ms had a hit rejected exactly
\* 100 ms after an accepted trigger.
C3_Witness ==
  \E n \in BandNames :
    \E j \in 1..Len(hitLog[n]) : \E i \in AcceptedBefore(hitLog[n], j) :
      /\ hitLog[n][j].refractory = 100
      /\ hitLog[n][j].t - hitLog[n][i].t = 100
      /\ ~hitLog[n][j].ok

\* C4: the first raw hit of a band is an accepted trigger, at every time and
\* for every refractoryMs.
C4_FirstHitAccepted ==
  \A n \in BandNames : hitLog[n] # <<>> => hitLog[n][1].ok

\* C5: in every frame in which step runs, a band whose entry condition fires
\* ends the frame active, in the refs and in its snapshot, whether the hit
\* is accepted or not and whether or not the exit condition holds too; a
\* rejected hit sets neither the last trigger time nor the flash flag; the
\* snapshot shows the only transition of the frame.
C5_HitLeavesActive ==
  [][StepTaken =>
       \A i \in 1..Len(config.bands) :
         LET band == config.bands[i]
             snap == REF_SNAP_SHOTS'[i]
         IN  /\ (~Active(REF_STATE, band.name) /\ EntryHolds(band, snap)) =>
                  /\ REF_STATE'[band.name].active
                  /\ snap.active
             /\ band.name \in last'.hits \ last'.trigs =>
                  /\ REF_STATE'[band.name].active
                  /\ Get(REF_LAST_HIT', band.name, -1) = Get(REF_LAST_HIT, band.name, -1)
                  /\ band.name = config.StrobeFlashBand => ~REF_STROBE_FLASH_TRIGGER'
             /\ snap.active = REF_STATE'[band.name].active]_vars

\* A band is active after a frame in which its hit was rejected and its exit
\* condition held as well.
C5_Witness ==
  /\ last.stepped
  /\ Len(REF_SNAP_SHOTS) = Len(config.bands)
  /\ \E i \in 1..Len(config.bands) :
       /\ REF_SNAP_SHOTS[i].name = config.bands[i].name
       /\ config.bands[i].name \in last.hits \ last.trigs
       /\ ExitHolds(config.bands[i], REF_SNAP_SHOTS[i])
       /\ REF_SNAP_SHOTS[i].active
       /\ REF_STATE[config.bands[i].name].active

C7_NoRefractoryNoSuppression ==
  \A n \in BandNames : \A j \in 1..Len(hitLog[n]) :
    hitLog[n][j].refractory = 0 => hitLog[n][j].ok

----------------------------------------------------------------------------
(* Configuration swaps and the flash flag. *)

\* C8: when Scene re-renders with a different configuration, or onMicStart
\* replaces the analyser, after frames that left a band active with stored
\* EMAs and a last trigger time, every band is back in the never-observed
\* condition: no EMA, active flag or last trigger time is kept.
C8_SwapResetsState ==
  [][(/\ \/ (renders' = renders + 1 /\ config' # config)
         \/ (micEvents' = micEvents + 1 /\ analyserRef # <<>>
                /\ analyserRef' # <<>>)
      /\ \E n \in BandNames :
            /\ Active(REF_STATE, n)
            /\ n \in DOMAIN REF_LAST_HIT
            /\ n \in DOMAIN REF_EMA_SHORT)
       => /\ REF_EMA_SHORT' = EmptyRecord
          /\ REF_EMA_LONG' = EmptyRecord
          /\ REF_STATE' = EmptyRecord
          /\ REF_LAST_HIT' = EmptyRecord]_vars

\* C9: right after every step the flash flag is set exactly when the band
\* named config.StrobeFlashBand had a raw hit that passed the refractory
\* gate in that step; in particular it is never set when no band has that
\* name.
C9_FlashIffStrobeTrigger ==
  [][StepTaken =>
       /\ REF_STROBE_FLASH_TRIGGER' <=> config.StrobeFlashBand \in last'.trigs
       /\ REF_STROBE_FLASH_TRIGGER' =>
            \E i \in 1..Len(config.bands) :
              /\ config.bands[i].name = config.StrobeFlashBand
              /\ ~Active(REF_STATE, config.StrobeFlashBand)
              /\ EntryHolds(config.bands[i], REF_SNAP_SHOTS'[i])
              /\ now' - Get(REF_LAST_HIT, config.StrobeFlashBand, 0)
                   > Refractory(config.bands[i])
       /\ last'.trigs \subseteq last'.hits]_vars

\* A step in which another band had an accepted trigger and the flash band a
\* rejected hit left the flag clear.
C9_Witness ==
  /\ last.stepped
  /\ config.StrobeFlashBand \in last.hits \ last.trigs
  /\ last.trigs # {}
  /\ ~REF_STROBE_FLASH_TRIGGER
  /\ flashStarts = 0
  /\ strobeDucks = 0

\* C10: after every frame the flash flag is set only if that frame produced
\* an accepted trigger of the flash band, whatever the layers did before it.
C10_FlagLivesOneFrame ==
  [][frame' = frame + 1 =>
       (REF_STROBE_FLASH_TRIGGER' =>
          last'.stepped /\ config.StrobeFlashBand \in last'.trigs)]_vars

----------------------------------------------------------------------------
(* Flash delivery and snapshots. *)

\* The accepted triggers of the flash band so far.
FlashTriggers ==
  {<<n, j>> \in BandNames \X (1..MaxRunFrames + 1) :
     /\ j <= Len(hitLog[n])
     /\ hitLog[n][j].ok
     /\ hitLog[n][j].flash}

\* C11: the flashes StrobeFlashLayer has started, with the one the flag
\* still announces, never outnumber the accepted triggers of the flash band;
\* the layer starts a flash only when the flag is set and clears the flag as
\* it does, so it starts at most one flash per frame and per trigger.
C11_FlashAtMostOnce ==
  /\ [](flashStarts + strobeDucks + (IF REF_STROBE_FLASH_TRIGGER THEN 1 ELSE 0)
          <= Cardinality(FlashTriggers))
  /\ [][flashStarts' # flashStarts =>
          /\ flashStarts' = flashStarts + 1
          /\ REF_STROBE_FLASH_TRIGGER
          /\ ~REF_STROBE_FLASH_TRIGGER'
          /\ frame' = frame]_vars

\* Two accepted triggers of the flash band, the first never consumed, have
\* led to a single flash.
C11_Witness ==
  /\ Cardinality(FlashTriggers) = 2
  /\ flashStarts = 1
  /\ strobeDucks = 0
  /\ ~REF_STROBE_FLASH_TRIGGER

\* The mean of data[low..high] times Scale, for an array flat at lo below
\* index len / 16 and flat at hi from there on, from the number of indices on
\* each side.
MeanOf(data, low, high) ==
  LET edge == data.len \div 16
      below == IF low < edge THEN Min(high, edge - 1) - low + 1 ELSE 0
      above == (high - low + 1) - below
  IN  ((below * data.lo + above * data.hi) * Scale) \div (high - low + 1)

\* The snapshot that belongs to band after a step on the array data of an
\* analyser of 2 * data.len points at 44100 Hz.
SnapshotOf(band, data, snap, emaShort, emaLong, state) ==
  LET a == hzToBin(band.lowHz, 44100, 2 * data.len)
      b == hzToBin(band.highHz, 44100, 2 * data.len)
  IN  /\ snap.name = band.name
      /\ snap.energy = MeanOf(data, Min(a, b), Max(a, b))
      /\ snap.ratio = CURRENT_RATIO(emaShort[band.name], emaLong[band.name])
      /\ \A d \in DbGrid :
           /\ snap.riseDb.lo >= d <=> snap.ratio.lo >= Pow10Db(d).hi
           /\ snap.riseDb.hi <= d <=> snap.ratio.hi <= Pow10Db(d).lo
      /\ snap.active = state[band.name].active

\* C12: after every step the snapshot list has one entry per band of the
\* config given to the step, in the config's order, the i-th with the i-th
\* band's name, the energy of this frame's array over the band, the ratio
\* and riseDb of the EMAs as the step leaves them and the active flag as the
\* step leaves it.
C12_SnapshotPerBand ==
  [][StepTaken =>
       /\ Len(REF_SNAP_SHOTS') = Len(config.bands)
       /\ \A i \in 1..Len(config.bands) :
            SnapshotOf(config.bands[i], REF_BYTE'[1], REF_SNAP_SHOTS'[i],
                       REF_EMA_SHORT', REF_EMA_LONG', REF_STATE')]_vars

\* After a step under the configuration that lists DYNAMIC_VISUAL first, the
\* list has DYNAMIC_VISUAL then STROBE_FLASH, with different energies and the
\* first band active, Scene having been rendered again before.
C12_Witness ==
  /\ last.stepped
  /\ config = ConfigExample
  /\ renders = 1
  /\ Len(REF_SNAP_SHOTS) = 2
  /\ REF_SNAP_SHOTS[1].name = "DYNAMIC_VISUAL"
  /\ REF_SNAP_SHOTS[2].name = "STROBE_FLASH"
  /\ REF_SNAP_SHOTS[1].energy # REF_SNAP_SHOTS[2].energy
  /\ REF_SNAP_SHOTS[1].active
  /\ REF_STATE["DYNAMIC_VISUAL"].active

\* The list is the complete list of one step under the configuration C: one
\* snapshot per band of C, in order, every energy taken from the one array
\* the latest step read.
CompleteFor(C, snaps, data) ==
  /\ Len(snaps) = Len(C.bands)
  /\ \A i \in 1..Len(C.bands) :
       LET a == hzToBin(C.bands[i].lowHz, 44100, 2 * data.len)
           b == hzToBin(C.bands[i].highHz, 44100, 2 * data.len)
       IN  /\ snaps[i].name = C.bands[i].name
           /\ snaps[i].energy = MeanOf(data, Min(a, b), Max(a, b))

\* C13: in every state a layer's frame callback can run in, the snapshot
\* list is empty or the complete list of one step; it changes only in a
\* step, and then to the complete list of that step.
C13_SnapshotsAtomic ==
  /\ [](REF_SNAP_SHOTS = <<>>
          \/ \E C \in Configs : CompleteFor(C, REF_SNAP_SHOTS, REF_BYTE[1]))
  /\ [][REF_SNAP_SHOTS' # REF_SNAP_SHOTS =>
          /\ StepTaken
          /\ CompleteFor(config, REF_SNAP_SHOTS', REF_BYTE'[1])]_vars

\* FestiveVisualLayer has run while the list was the two-band list of a step
\* made before Scene was given a configuration of one band.
C13_Witness ==
  /\ strobeDucks = 1
  /\ Len(REF_SNAP_SHOTS) = 2
  /\ Len(config.bands) = 1
  /\ renders = 1

----------------------------------------------------------------------------
(* Smoothing. *)

\* C14: a band with no stored EMA has, after the step that first observes
\* it with energy E, emaShort = emaLong = E exactly, for every E and every
\* smoothing coefficient.
C14_FirstFrameExact ==
  call.fn = "ema" => call.ema = "energy"

\* C15: in every step, for a band that has stored EMAs,
\* emaShort' = (1 - emaShortAlpha) * emaShort + emaShortAlpha * energy and
\* emaLong' = (1 - emaLongAlpha) * emaLong + emaLongAlpha * energy, with the
\* band's own previous values, this frame's energy and the alphas of the
\* config given to the step, whether the band is active or not and whether
\* it has a hit or not.
C15_EmaRecurrence ==
  [][StepTaken =>
       \A i \in 1..Len(config.bands) :
         LET n == config.bands[i].name
             energy == REF_SNAP_SHOTS'[i].energy
         IN  n \in DOMAIN REF_EMA_SHORT =>
               /\ AlphaDen * REF_EMA_SHORT'[n] =
                    (AlphaDen - config.emaShortAlpha) * REF_EMA_SHORT[n]
                      + config.emaShortAlpha * energy
               /\ AlphaDen * REF_EMA_LONG'[n] =
                    (AlphaDen - config.emaLongAlpha) * REF_EMA_LONG[n]
                      + config.emaLongAlpha * energy]_vars

\* An active band without a hit in the frame has EMAs that differ from each
\* other and from the frame's energy: values carried over and updated.
C15_Witness ==
  /\ last.stepped
  /\ Len(REF_SNAP_SHOTS) = Len(config.bands)
  /\ \E i \in 1..Len(config.bands) :
       LET n == config.bands[i].name
       IN  /\ REF_SNAP_SHOTS[i].name = n
           /\ REF_SNAP_SHOTS[i].active
           /\ n \notin last.hits
           /\ REF_EMA_SHORT[n] # REF_EMA_LONG[n]
           /\ REF_EMA_SHORT[n] # REF_SNAP_SHOTS[i].energy
           /\ REF_EMA_LONG[n] # REF_SNAP_SHOTS[i].energy

----------------------------------------------------------------------------
(* Band Mapper and setup. *)

ClampIndex(i, len) == Max(0, Min(len - 1, i))

\* C17: bandEnergy(data, a, b) is the mean of data[low..high] with
\* low = min(a, b) and high = max(a, b) each kept inside [0, len - 1]; it is
\* the same for (b, a); bandEnergy(data, i, i) = data[i] for i in range.
C17_BandEnergyMean ==
  (call.fn = "bandEnergy" /\ call.data.len > 0) =>
    /\ call.energy = MeanOf(call.data,
                            ClampIndex(Min(call.a, call.b), call.data.len),
                            ClampIndex(Max(call.a, call.b), call.data.len))
    /\ call.energy = call.swapped
    /\ (call.a = call.b /\ call.a \in 0..(call.data.len - 1)) =>
         call.energy = DataAt(call.data, call.a) * Scale

\* C18: for every array and every pair of indices the divisor of bandEnergy
\* is at least 1 and the result is a number, never NaN.
C18_BandEnergyDefined ==
  call.fn = "bandEnergy" =>
    /\ call.span >= 1
    /\ call.energy # NaN
    /\ call.energy >= 0

C20_NoNegativeThreshold ==
  [][StepTaken =>
       \A i \in 1..Len(config.bands) :
         LET band == config.bands[i]
         IN  /\ band.absFloor >= 0
             /\ band.ratioOn >= 0
             /\ band.ratioOff >= 0
             /\ band.dbOn >= 0
             /\ band.dbOff >= 0
             /\ Refractory(band) >= 0]_vars

----------------------------------------------------------------------------
(* Frames without an analyser, and the numbers of a frame. *)

\* C21: a frame in which analyserRef.current is null does not run step and
\* leaves every band's emaShort, emaLong, active flag and last trigger time
\* and the snapshot list as they were.
C21_NoAnalyserNoUpdate ==
  [][(frame' = frame + 1 /\ analyserRef = <<>>) =>
       /\ ~last'.stepped
       /\ REF_EMA_SHORT' = REF_EMA_SHORT
       /\ REF_EMA_LONG' = REF_EMA_LONG
       /\ REF_STATE' = REF_STATE
       /\ REF_LAST_HIT' = REF_LAST_HIT
       /\ REF_SNAP_SHOTS' = REF_SNAP_SHOTS]_vars

\* A frame has passed without an analyser, after the microphone was stopped,
\* with a band active, a last trigger time stored and a snapshot list kept.
C21_Witness ==
  /\ frame >= 2
  /\ ~last.stepped
  /\ analyserRef = <<>>
  /\ REF_SNAP_SHOTS # <<>>
  /\ REF_LAST_HIT # EmptyRecord
  /\ \E n \in DOMAIN REF_STATE : REF_STATE[n].active

\* The array that is all zeros.
Silence == [lo |-> 0, hi |-> 0]

\* C22: in every step and for every band the energy and the EMAs are not
\* negative, so the baseline max(emaLong, 1e-6) is positive, and the ratio
\* is a positive number, so riseDb is the logarithm of a positive number; when every array read so far was all zeros the
\* ratio is 1, riseDb is 0, and a band with absFloor > 0 is inactive and has
\* never had a hit.
C22_RatioDefined ==
  [][StepTaken =>
       \A i \in 1..Len(config.bands) :
         LET band == config.bands[i]
             snap == REF_SNAP_SHOTS'[i]
         IN  /\ snap.energy >= 0
             /\ REF_EMA_SHORT'[band.name] >= 0
             /\ REF_EMA_LONG'[band.name] >= 0
             /\ snap.ratio.lo >= 0
             /\ snap.ratio.hi >= 1
             /\ snap.ratio.lo <= snap.ratio.hi
             /\ snap.riseDb.lo <= snap.riseDb.hi
             /\ heard' \subseteq {Silence} =>
                  /\ snap.ratio = [lo |-> RatioScale, hi |-> RatioScale]
                  /\ snap.riseDb = [lo |-> 0, hi |-> 0]
                  /\ band.absFloor > 0 =>
                       /\ ~snap.active
                       /\ ~REF_STATE'[band.name].active
                       /\ hitLog'[band.name] = <<>>]_vars

\* Three frames of all-zero arrays have been read and nothing else: every
\* snapshot has ratio 1 and riseDb 0.
C22_Witness ==
  /\ frame >= 3
  /\ last.stepped
  /\ heard = {Silence}
  /\ REF_SNAP_SHOTS # <<>>
  /\ \A i \in 1..Len(REF_SNAP_SHOTS) :
       /\ REF_SNAP_SHOTS[i].ratio.lo = RatioScale
       /\ REF_SNAP_SHOTS[i].riseDb.hi = 0
       /\ ~REF_SNAP_SHOTS[i].active

\* C23: under a constant energy E an EMA moves toward E and never past it:
\* a stored value below E becomes a larger value that is at most E, a stored
\* value above E a smaller value that is at least E, and a stored value
\* equal to E stays E.
C23_ConvergesMonotonically ==
  call.fn = "emaStep" =>
    /\ call.previous < call.energy =>
         call.toPrevious = "above" /\ call.toEnergy \in {"below", "equal"}
    /\ call.previous > call.energy =>
         call.toPrevious = "below" /\ call.toEnergy \in {"above", "equal"}
    /\ call.previous = call.energy => call.toEnergy = "equal"

\* C29: after a frame an EMA lies between the smaller and the larger of its
\* previous value and the frame's energy, and so is at most 255.
C29_EmaWithinRange ==
  call.fn = "emaStep" =>
    /\ ~(call.toPrevious = "above" /\ call.toEnergy = "above")
    /\ ~(call.toPrevious = "below" /\ call.toEnergy = "below")
    /\ call.toTop \in {"below", "equal"}

----------------------------------------------------------------------------
(* Two instances compared. *)

\* C24: two instances created fresh and given the same config, arrays,
\* analyser and times have, after every frame, the same snapshot list and
\* the same flash flag, the layers having cleared the flag of one of them
\* between frames and never that of the other.
C24_Deterministic ==
  [][frame' = frame + 1 =>
       /\ twin'.snaps = REF_SNAP_SHOTS'
       /\ twin'.flag = REF_STROBE_FLASH_TRIGGER'
       /\ twin'.emaShort = REF_EMA_SHORT'
       /\ twin'.emaLong = REF_EMA_LONG'
       /\ twin'.state = REF_STATE'
       /\ twin'.lastHit = REF_LAST_HIT']_vars

\* A frame has set the flag of both instances after a layer had cleared the
\* flag of the first while that of the second stayed set.
C24_Witness ==
  /\ twin.view = "same"
  /\ frame >= 3
  /\ last.stepped
  /\ flashStarts + strobeDucks >= 1
  /\ REF_STROBE_FLASH_TRIGGER
  /\ twin.flag
  /\ twin.snaps = REF_SNAP_SHOTS

\* C28: an instance given other bands besides a band, in any order, leaves
\* after every frame the same snapshot, emaShort, emaLong, active flag and
\* last trigger time for that band as an instance given the same frames
\* with the bands reversed or with that band alone.
C28_BandsIndependent ==
  [][StepTaken =>
       /\ Len(twin'.snaps) = Len(TwinConfig(twin.view, config).bands)
       /\ \A j \in 1..Len(twin'.snaps) :
            LET n == twin'.snaps[j].name
            IN  /\ \E i \in 1..Len(REF_SNAP_SHOTS') :
                     REF_SNAP_SHOTS'[i] = twin'.snaps[j]
                /\ Get(twin'.emaShort, n, -1) = Get(REF_EMA_SHORT', n, -1)
                /\ Get(twin'.emaLong, n, -1) = Get(REF_EMA_LONG', n, -1)
                /\ Get(twin'.state, n, [active |-> FALSE])
                     = Get(REF_STATE', n, [active |-> FALSE])
                /\ Get(twin'.lastHit, n, -1) = Get(REF_LAST_HIT', n, -1)]_vars

\* The second instance has only the last of two bands; that band is active
\* after a trigger in both instances while the other band, which only the
\* first instance has, has had a hit too and differs in energy.
C28_Witness ==
  /\ twin.view = "last"
  /\ last.stepped
  /\ Len(REF_SNAP_SHOTS) = 2
  /\ Len(twin.snaps) = 1
  /\ twin.snaps[1] = REF_SNAP_SHOTS[2]
  /\ twin.snaps[1].active
  /\ twin.snaps[1].name \in DOMAIN twin.lastHit
  /\ hitLog[REF_SNAP_SHOTS[1].name] # <<>>
  /\ REF_SNAP_SHOTS[1].energy # REF_SNAP_SHOTS[2].energy

----------------------------------------------------------------------------
(* Edges, flicker and the consumers of the flag. *)

\* C25: in every step a band has a hit, and so an accepted trigger, only if
\* it was inactive when the step began and is active when it ends; a band
\* that was active has neither, whatever its entry condition and the time
\* since its last trigger are; so after each accepted trigger but the last
\* the band has been inactive at the end of some frame.
C25_TriggersAreEdges ==
  /\ [][StepTaken =>
          \A i \in 1..Len(config.bands) :
            LET n == config.bands[i].name
            IN  /\ n \in last'.trigs => n \in last'.hits
                /\ n \in last'.hits =>
                     ~Active(REF_STATE, n) /\ REF_STATE'[n].active
                /\ Active(REF_STATE, n) => n \notin last'.hits]_vars
  /\ [][\A n \in BandNames :
          Len(hitLog'[n]) > Len(hitLog[n]) =>
            /\ Len(hitLog'[n]) = Len(hitLog[n]) + 1
            /\ ~Active(REF_STATE, n)]_vars

\* A band that has had an accepted trigger stayed active through a later
\* frame in which its entry condition held and more than its refractory
\* period had passed, without a hit.
C25_Witness ==
  /\ last.stepped
  /\ Len(REF_SNAP_SHOTS) = Len(config.bands)
  /\ \E i \in 1..Len(config.bands) :
       LET band == config.bands[i]
       IN  /\ REF_SNAP_SHOTS[i].name = band.name
           /\ REF_SNAP_SHOTS[i].active
           /\ band.name \notin last.hits
           /\ EntryHolds(band, REF_SNAP_SHOTS[i])
           /\ band.name \in DOMAIN REF_LAST_HIT
           /\ now - REF_LAST_HIT[band.name] > Refractory(band)

\* C26: a band of VISUAL_CONFIG that receives the same energy on every frame
\* does not keep changing its active flag: it has at most one raw hit, for
\* a second one needs the flag to have gone from active to inactive and
\* back under the same EMAs, ratio and riseDb, which then repeats forever.
C26_NoPerpetualFlicker ==
  \A n \in BandNames : Len(hitLog[n]) <= 1

\* C27: when a layer clears the flash flag, StrobeFlashLayer and
\* FestiveVisualLayer have each observed every accepted trigger of the flash
\* band once: they have started as many flashes as strobe ducks.
C27_BothConsumersSee ==
  [][(REF_STROBE_FLASH_TRIGGER /\ ~REF_STROBE_FLASH_TRIGGER' /\ frame' = frame) =>
       flashStarts' = strobeDucks']_vars

----------------------------------------------------------------------------
(* The energy inside step. *)

\* C30: in every step the array read has frequencyBinCount = fftSize / 2
\* elements, and for every band both bins given to bandEnergy lie inside
\* the array, the span averaged has at least one element and the energy is
\* a number between 0 and 255.
C30_EnergyWellDefined ==
  [][StepTaken =>
       LET data == REF_BYTE'[1]
           ANALYZER == analyserRef[1]
       IN  /\ ANALYZER.fftSize \div 2 >= 1
           /\ data.len = ANALYZER.fftSize \div 2
           /\ \A i \in 1..Len(config.bands) :
                LET a == hzToBin(config.bands[i].lowHz, ANALYZER.sampleRate,
                                 ANALYZER.fftSize)
                    b == hzToBin(config.bands[i].highHz, ANALYZER.sampleRate,
                                 ANALYZER.fftSize)
                IN  /\ a \in 0..(data.len - 1)
                    /\ b \in 0..(data.len - 1)
                    /\ BandSpan(data, a, b) >= 1
                    /\ REF_SNAP_SHOTS'[i].energy # NaN
                    /\ REF_SNAP_SHOTS'[i].energy >= 0
                    /\ REF_SNAP_SHOTS'[i].energy <= 255 * Scale]_vars

\* A band from -100 Hz to 30000 Hz has been averaged over the whole of a
\* 16-element array, read after Scene was rendered with fftSize 32 and after
\* an earlier frame.
C30_Witness ==
  /\ last.stepped
  /\ frame >= 2
  /\ renders = 1
  /\ analyserRef # <<>>
  /\ analyserRef[1].fftSize = 32
  /\ REF_BYTE[1].len = 16
  /\ config.bands[1].lowHz = -100
  /\ config.bands[1].highHz = 30000
  /\ REF_SNAP_SHOTS[1].energy = MeanOf(REF_BYTE[1], 0, 15)
  /\ REF_SNAP_SHOTS[1].energy > 200 * Scale

====
